---- MODULE Spec2Model ----
(***************************************************************************)
(* State machine of the EPS Agent chat page (src/src/pages/ChatPage.tsx,   *)
(* validation-workflow variant, lines 1-342) together with the two forms   *)
(* that deliver user intents to it (ChatInterface, EpsConfirmation).       *)
(*                                                                         *)
(* A text is a sequence of tokens.  A token is a string: either a single   *)
(* character (user input, file content) or a fixed literal of the source   *)
(* kept as one chunk.  Concatenation of texts is \o.                       *)
(***************************************************************************)
EXTENDS Integers, Sequences, FiniteSets, TLC

VARIABLES
    appState,             \* ChatPage.tsx:24
    messages,             \* ChatPage.tsx:25
    tasks,                \* ChatPage.tsx:26
    completedTasksCount,  \* ChatPage.tsx:27
    currentFile,          \* ChatPage.tsx:28
    isLoading,            \* ChatPage.tsx:29
    showConfirmation,     \* ChatPage.tsx:30
    completionTimestamp,  \* ChatPage.tsx:31
    pending,              \* the fetch() calls of callChatAPI that have not settled yet
    idCounter,            \* number of identifiers handed out by generateId
    reqCounter,           \* number of fetch() calls issued so far
    now,                  \* the clock read by new Date()
    nEvents,              \* number of user events taken so far
    lastEvent,            \* the event handled by the last step
    call,                 \* a call of a utility function of lib/epsUtils: its arguments
    ret                   \* the value that call returned, once it has returned

vars == <<appState, messages, tasks, completedTasksCount, currentFile, isLoading,
          showConfirmation, completionTimestamp, pending, idCounter, reqCounter,
          now, nEvents, lastEvent, call, ret>>

----------------------------------------------------------------------------
(* Bounds of the exploration *)

MaxEvents == 4

MaxRequests == 2

\* longest content handed to truncateContent
MaxContentLen == 104

\* longest log or test case handed to buildEpsValidationPrompt
MaxTextLen == 2

----------------------------------------------------------------------------
(* AppState enum, src/unnamed/part_000:47-51 *)

CHATTING == "chatting"

TASK_MODE == "task_mode"

TASKS_COMPLETED == "tasks_completed"

----------------------------------------------------------------------------
(* Fixed texts of the source *)

MsgTestCaseDetected ==
    <<"Test case detected. Please upload the corresponding EPS log file to proceed with validation.">>

MsgSendError ==
    <<"Sorry, I encountered an error processing your message. Please try again.">>

MsgValidationError ==
    <<"Sorry, validation failed. Please check the log file and test case format.">>

MsgNewTaskReady ==
    <<"Ready to start a new validation task! Please upload an EPS log file and paste your test case.">>

MsgFeature ==
    <<"I'd be happy to help with feature requests! Please describe what functionality you'd like to see added to the EPS Agent system.">>

MsgPrivacy ==
    <<"Privacy Information: EPS Agent runs entirely on your local machine. All file processing, AI conversations, and data analysis happen locally. No data is sent to external servers, ensuring complete privacy and security of your documents.">>

MsgNoReply == <<"No reply from model">>

TaskDescription == <<"Validate test case against EPS log">>

ValidationFailedPrefix == <<"Validation failed: ">>

MsgConfirmed(pathToFile) ==
    <<"EPS log \"">> \o pathToFile \o <<"\" and test case received. Initiating validation...">>

HttpErrorMessage(status) == <<"HTTP error! status: ", ToString(status)>>

----------------------------------------------------------------------------
(* Character helpers used by the regular expression and by String.trim *)

UpperLetters == <<"A","B","C","D","E","F","G","H","I","J","K","L","M",
                  "N","O","P","Q","R","S","T","U","V","W","X","Y","Z">>

LowerLetters == <<"a","b","c","d","e","f","g","h","i","j","k","l","m",
                  "n","o","p","q","r","s","t","u","v","w","x","y","z">>

Digits == {"0","1","2","3","4","5","6","7","8","9"}

ToLower(c) ==
    IF \E i \in 1..26 : UpperLetters[i] = c
    THEN LowerLetters[CHOOSE i \in 1..26 : UpperLetters[i] = c]
    ELSE c

\* \w of a JavaScript regular expression: [A-Za-z0-9_]
IsWordChar(c) ==
    \/ \E i \in 1..26 : UpperLetters[i] = c \/ LowerLetters[i] = c
    \/ c \in Digits
    \/ c = "_"

\* white space removed by String.prototype.trim
IsSpace(c) == c \in {" ", "\t", "\n", "\r"}

\* text s has the literal lit (given in lower case) at position i, ignoring case
MatchesAt(s, i, lit) ==
    /\ i + Len(lit) - 1 <= Len(s)
    /\ \A k \in 1..Len(lit) : ToLower(s[i + k - 1]) = lit[k]

\* \b after the match that ends at position e (the matched text ends in a word character)
WordBoundaryAfter(s, e) == e = Len(s) \/ ~IsWordChar(s[e + 1])

LitTestCaseID == <<"{","t","e","s","t","c","a","s","e","i","d">>

LitStepNo == <<"s","t","e","p","n","o">>

LitTagStepNo == <<"<","s","t","e","p","n","o">>

\* mutant: the \b after StepNo is missing
isTestCase_NoWordBoundary(text) ==
    \E i \in 1..Len(text) :
        \/ MatchesAt(text, i, LitTestCaseID)
        \/ MatchesAt(text, i, LitStepNo)
        \/ MatchesAt(text, i, LitTagStepNo)

\* /{TestCaseID|StepNo\b|<StepNo/i.test(text)
isTestCase(text) ==
    \E i \in 1..Len(text) :
        \/ MatchesAt(text, i, LitTestCaseID)
        \/ MatchesAt(text, i, LitStepNo) /\ WordBoundaryAfter(text, i + Len(LitStepNo) - 1)
        \/ MatchesAt(text, i, LitTagStepNo)

RECURSIVE TrimStart(_)
TrimStart(s) == IF s # <<>> /\ IsSpace(Head(s)) THEN TrimStart(Tail(s)) ELSE s

RECURSIVE TrimEnd(_)
TrimEnd(s) ==
    IF s # <<>> /\ IsSpace(s[Len(s)]) THEN TrimEnd(SubSeq(s, 1, Len(s) - 1)) ELSE s

\* String.prototype.trim
Trim(s) == TrimEnd(TrimStart(s))

----------------------------------------------------------------------------
(* Inputs offered by the environment *)

\* texts typed into the chat box
ChatInputs ==
    { <<"h","i">>,
      <<"S","t","e","p","N","o",":"," ","1">>,
      <<" ">> }

\* contents of the confirmation form (EpsConfirmation.tsx:24-29)
Forms ==
    { [pathToFile |-> <<"checkout.log">>, epsLogContent |-> <<"L","1">>, testCaseContent |-> <<"T","1">>],
      [pathToFile |-> <<"checkout.log">>, epsLogContent |-> <<"L","1">>, testCaseContent |-> <<" ">>],
      [pathToFile |-> <<"empty.log">>, epsLogContent |-> <<>>, testCaseContent |-> <<"T","1">>] }

\* an optional value is the empty sequence or a one-element sequence
None == <<>>

Some(v) == <<v>>

\* what the model endpoint can answer to one fetch():
\*   net    = FALSE : the request never reached the endpoint (fetch rejects)
\*   status         : HTTP status of the response
\*   json   = FALSE : the body is not JSON text (response.json() rejects)
\*   message        : optional data.message.content
\*   content        : optional data.content
Responses ==
    { [net |-> TRUE,  status |-> 200, json |-> TRUE,
       message |-> Some(<<"Overall Result: PASS">>), content |-> None],
      [net |-> TRUE,  status |-> 200, json |-> TRUE,  message |-> None, content |-> None],
      [net |-> TRUE,  status |-> 200, json |-> FALSE, message |-> None, content |-> None],
      [net |-> TRUE,  status |-> 500, json |-> TRUE,  message |-> None, content |-> None],
      [net |-> FALSE, status |-> 0,   json |-> TRUE,  message |-> None, content |-> None] }

NetworkErrorMessage == <<"Failed to fetch">>

\* message of the SyntaxError response.json() rejects with
JsonErrorMessage == <<"Unexpected end of JSON input">>

----------------------------------------------------------------------------
(* lib/epsUtils (src/unnamed/part_004:63-134).  The contents handed to     *)
(* these functions are sequences of single characters, so Len is           *)
(* String.length.                                                          *)

\* String.length of a text: the characters of all its tokens
RECURSIVE CharLen(_)
CharLen(text) == IF text = <<>> THEN 0 ELSE Len(Head(text)) + CharLen(Tail(text))

Min(a, b) == IF a <= b THEN a ELSE b

Max(a, b) == IF a >= b THEN a ELSE b

\* String.prototype.slice(0, end): a negative end counts from the end of the string
SliceTo(content, end) ==
    LET e == IF end < 0 THEN Max(Len(content) + end, 0) ELSE Min(end, Len(content))
    IN  SubSeq(content, 1, e)

\* default of the maxLength parameter of truncateContent
DefaultMaxLength == 50000

\* the text appended to a truncated content
TruncationSuffix(originalLength, maxLength) ==
    <<"...\n[Content truncated: Original length ", ToString(originalLength),
      " exceeds limit of ", ToString(maxLength),
      " characters. Please use a smaller input or a larger model.]">>

\* mutant: the test is content.length < maxLength
truncateContent_StrictTest(content, maxLength) ==
    IF Len(content) < maxLength
    THEN content
    ELSE SliceTo(content, maxLength - 100) \o TruncationSuffix(Len(content), maxLength)

\* truncateContent(content, maxLength)
truncateContent(content, maxLength) ==
    IF Len(content) <= maxLength
    THEN content
    ELSE SliceTo(content, maxLength - 100) \o TruncationSuffix(Len(content), maxLength)

\* the fixed parts of the validation prompt (template literal of part_004:100-106)
PromptHead ==
    <<"System: You are an EPS log validator. Parse and analyze the raw EPS log content: [">>

PromptMiddle == <<"]. Validate it against this test case: [">>

PromptTail ==
    <<"]. For each test case step, verify the action in the log and cite specific log entries (e.g., timestamps, request IDs, service responses) as evidence. Output in this format: \nOverall Result: PASS or FAIL\nReasoning and Evidence:\n- Step 1: [Action and verification details with specific log excerpts]\n- Step 2: [Details]\n...\nIf the log or test case is malformed, note the issue but attempt validation. If no relevant log entries are found, indicate this explicitly.\n">>

UserInstruction == <<"User: Validate the test case against the EPS log now.">>

\* mutant: the two contents are interpolated in the other order
buildEpsValidationPrompt_SwapsInputs(epsLogContent, testCaseContent) ==
    PromptHead \o testCaseContent \o PromptMiddle \o epsLogContent \o PromptTail
        \o UserInstruction

\* buildEpsValidationPrompt(epsLogContent, testCaseContent)
buildEpsValidationPrompt(epsLogContent, testCaseContent) ==
    PromptHead \o epsLogContent \o PromptMiddle \o testCaseContent \o PromptTail
        \o UserInstruction

----------------------------------------------------------------------------
(* The page's state as one record, so that a handler is a function from    *)
(* the state before the event to the state after it.                       *)

Cur ==
    [appState |-> appState, messages |-> messages, tasks |-> tasks,
     completedTasksCount |-> completedTasksCount, currentFile |-> currentFile,
     isLoading |-> isLoading, showConfirmation |-> showConfirmation,
     completionTimestamp |-> completionTimestamp, pending |-> pending,
     idCounter |-> idCounter, reqCounter |-> reqCounter]

Apply(s) ==
    /\ appState' = s.appState
    /\ messages' = s.messages
    /\ tasks' = s.tasks
    /\ completedTasksCount' = s.completedTasksCount
    /\ currentFile' = s.currentFile
    /\ isLoading' = s.isLoading
    /\ showConfirmation' = s.showConfirmation
    /\ completionTimestamp' = s.completionTimestamp
    /\ pending' = s.pending
    /\ idCounter' = s.idCounter
    /\ reqCounter' = s.reqCounter

\* generateId: the identifier the next call returns (time stamp plus random
\* suffix in the source, a fresh number here)
generateId(s) == s.idCounter + 1

\* mutant: the new message is put in front of the earlier ones
addMessage_Prepends(s, role, content, t) ==
    [s EXCEPT !.messages = <<[id |-> generateId(s), role |-> role,
                              content |-> content, timestamp |-> t]>> \o @,
              !.idCounter = generateId(s)]

\* addMessage(role, content) at time t
addMessage(s, role, content, t) ==
    [s EXCEPT !.messages = Append(@, [id |-> generateId(s), role |-> role,
                                      content |-> content, timestamp |-> t]),
              !.idCounter = generateId(s)]

\* the part of callChatAPI up to its first await: the fetch() is issued.
\* taskId is the task the caller holds while it waits (0 for a chat send).
callChatAPI_fetch(s, kind, message, epsLogContent, testCaseContent, taskId) ==
    [s EXCEPT !.pending = @ \cup {[rid |-> s.reqCounter + 1, kind |-> kind,
                                   message |-> message,
                                   epsLogContent |-> epsLogContent,
                                   testCaseContent |-> testCaseContent,
                                   taskId |-> taskId]},
              !.reqCounter = @ + 1]

\* JavaScript truthiness of an optional string: present and not ''
Truthy(opt) == opt # None /\ opt[1] # <<>>

\* mutant: data.content is looked at before data.message.content
callChatAPI_ContentFirst(resp) ==
    IF ~resp.net
    THEN [threw |-> TRUE, chatResponse |-> <<>>, error |-> NetworkErrorMessage]
    ELSE IF ~(resp.status \in 200..299)
    THEN [threw |-> TRUE, chatResponse |-> <<>>, error |-> HttpErrorMessage(resp.status)]
    ELSE IF ~resp.json
    THEN [threw |-> TRUE, chatResponse |-> <<>>, error |-> JsonErrorMessage]
    ELSE [threw |-> FALSE,
          chatResponse |-> IF Truthy(resp.content) THEN resp.content[1]
                           ELSE IF Truthy(resp.message) THEN resp.message[1]
                           ELSE MsgNoReply,
          error |-> <<>>]

\* the part of callChatAPI after the fetch() settled with resp: either it
\* returns a ChatReply or it rethrows the error it caught
callChatAPI(resp) ==
    IF ~resp.net
    THEN [threw |-> TRUE, chatResponse |-> <<>>, error |-> NetworkErrorMessage]
    ELSE IF ~(resp.status \in 200..299)
    THEN [threw |-> TRUE, chatResponse |-> <<>>, error |-> HttpErrorMessage(resp.status)]
    ELSE IF ~resp.json
    THEN [threw |-> TRUE, chatResponse |-> <<>>, error |-> JsonErrorMessage]
    ELSE [threw |-> FALSE,
          chatResponse |-> IF Truthy(resp.message) THEN resp.message[1]
                           ELSE IF Truthy(resp.content) THEN resp.content[1]
                           ELSE MsgNoReply,
          error |-> <<>>]

\* mutant: the validation prompt is built as soon as the log is there
callChatAPI_prompt_LogAlone(message, epsLogContent, testCaseContent) ==
    IF Truthy(epsLogContent)
    THEN buildEpsValidationPrompt(
             truncateContent(epsLogContent[1], DefaultMaxLength),
             truncateContent(IF testCaseContent = None THEN <<>> ELSE testCaseContent[1],
                             DefaultMaxLength))
    ELSE message

\* the prompt callChatAPI puts in the body of its fetch() (ChatPage.tsx:57-64)
callChatAPI_prompt(message, epsLogContent, testCaseContent) ==
    IF Truthy(epsLogContent) /\ Truthy(testCaseContent)
    THEN buildEpsValidationPrompt(truncateContent(epsLogContent[1], DefaultMaxLength),
                                  truncateContent(testCaseContent[1], DefaultMaxLength))
    ELSE message

----------------------------------------------------------------------------
(* api/chat.ts: sendChatMessage, the exported client of the same endpoint  *)

MsgCannotConnect ==
    <<"Sorry, I cannot connect to the local AI service. Please ensure Ollama is running on localhost:11434 and the model is loaded.">>

\* the prompt sendChatMessage puts in the body of its fetch() (chat.ts:32-39)
sendChatMessage_prompt(message, epsLogContent, testCaseContent) ==
    IF Truthy(epsLogContent) /\ Truthy(testCaseContent)
    THEN buildEpsValidationPrompt(truncateContent(epsLogContent[1], DefaultMaxLength),
                                  truncateContent(testCaseContent[1], DefaultMaxLength))
    ELSE message

\* the part of sendChatMessage after the fetch() settled with resp: its catch
\* block turns every error into a ChatResponse, so the call never throws
\* (chat.ts:53-74)
sendChatMessage(resp) ==
    IF ~resp.net
    THEN [threw |-> FALSE, reply |-> MsgCannotConnect, error |-> Some(NetworkErrorMessage)]
    ELSE IF ~(resp.status \in 200..299)
    THEN [threw |-> FALSE, reply |-> MsgCannotConnect, error |-> Some(HttpErrorMessage(resp.status))]
    ELSE IF ~resp.json
    THEN [threw |-> FALSE, reply |-> MsgCannotConnect, error |-> Some(JsonErrorMessage)]
    ELSE [threw |-> FALSE,
          reply |-> IF Truthy(resp.message) THEN resp.message[1]
                   ELSE IF Truthy(resp.content) THEN resp.content[1]
                   ELSE MsgNoReply,
          error |-> None]

----------------------------------------------------------------------------
(* The mock API route (src/unnamed/part_004:146-178), a proxy in front of  *)
(* the same endpoint                                                       *)

MsgMockFailed == <<"Failed to connect to Ollama">>

\* POST after its fetch() settled with resp: the status of resp is not looked at
POST(resp) ==
    IF ~resp.net \/ ~resp.json
    THEN [status |-> 500, reply |-> None, error |-> Some(MsgMockFailed)]
    ELSE [status |-> 200,
          reply |-> Some(IF Truthy(resp.message) THEN resp.message[1]
                         ELSE IF Truthy(resp.content) THEN resp.content[1]
                         ELSE IF Truthy(resp.choices) THEN resp.choices[1]
                         ELSE MsgNoReply),
          error |-> None]

----------------------------------------------------------------------------
(* Handlers of ChatPage *)

\* mutant: the return that ends the test-case branch is missing
handleSendMessage_TestCaseFallsThrough(s, messageContent, t) ==
    IF s.isLoading THEN s
    ELSE LET s0 == IF isTestCase(messageContent)
                   THEN [addMessage(addMessage(s, "user", messageContent, t),
                                    "assistant", MsgTestCaseDetected, t)
                            EXCEPT !.showConfirmation = TRUE]
                   ELSE s
             s1 == addMessage(s0, "user", messageContent, t)
             s2 == [s1 EXCEPT !.isLoading = TRUE]
         IN  callChatAPI_fetch(s2, "chat", messageContent, None, None, 0)

\* mutant: the early return on isLoading is missing
handleSendMessage_NoBusyGuard(s, messageContent, t) ==
    IF isTestCase(messageContent)
    THEN LET s1 == addMessage(s, "user", messageContent, t)
             s2 == addMessage(s1, "assistant", MsgTestCaseDetected, t)
         IN  [s2 EXCEPT !.showConfirmation = TRUE]
    ELSE LET s1 == addMessage(s, "user", messageContent, t)
             s2 == [s1 EXCEPT !.isLoading = TRUE]
         IN  callChatAPI_fetch(s2, "chat", messageContent, None, None, 0)

\* handleSendMessage up to its await (ChatPage.tsx:95-118)
handleSendMessage(s, messageContent, t) ==
    IF s.isLoading THEN s
    ELSE IF isTestCase(messageContent)
    THEN LET s1 == addMessage(s, "user", messageContent, t)
             s2 == addMessage(s1, "assistant", MsgTestCaseDetected, t)
         IN  [s2 EXCEPT !.showConfirmation = TRUE]
    ELSE LET s1 == addMessage(s, "user", messageContent, t)
             s2 == [s1 EXCEPT !.isLoading = TRUE]
         IN  callChatAPI_fetch(s2, "chat", messageContent, None, None, 0)

\* mutant: the apology quotes the message of the error
handleSendMessage_settled_QuotesError(s, req, resp, t) ==
    LET reply == callChatAPI(resp)
        s1 == IF reply.threw
              THEN addMessage(s, "assistant", MsgSendError \o reply.error, t)
              ELSE addMessage(s, "assistant", reply.chatResponse, t)
    IN  [s1 EXCEPT !.isLoading = FALSE, !.pending = @ \ {req}]

\* mutant: the catch branch logs the error and appends nothing
handleSendMessage_settled_NoApology(s, req, resp, t) ==
    LET reply == callChatAPI(resp)
        s1 == IF reply.threw
              THEN s
              ELSE addMessage(s, "assistant", reply.chatResponse, t)
    IN  [s1 EXCEPT !.isLoading = FALSE, !.pending = @ \ {req}]

\* handleSendMessage after its await (ChatPage.tsx:118-142): req settled with resp
handleSendMessage_settled(s, req, resp, t) ==
    LET reply == callChatAPI(resp)
        s1 == IF reply.threw
              THEN addMessage(s, "assistant", MsgSendError, t)
              ELSE addMessage(s, "assistant", reply.chatResponse, t)
    IN  [s1 EXCEPT !.isLoading = FALSE, !.pending = @ \ {req}]

\* processEpsValidation up to its await (ChatPage.tsx:182-187)
processEpsValidation(s, task) ==
    LET s1 == [s EXCEPT !.isLoading = TRUE]
    IN  callChatAPI_fetch(s1, "validation", <<>>, Some(task.epsLogContent),
                          Some(task.testCaseContent), task.id)

\* mutant: every task of the collection is completed, whatever its id
CompleteTask_MarksAll(prevTasks, taskId, justification, t) ==
    [i \in 1..Len(prevTasks) |->
        [prevTasks[i] EXCEPT !.completed = TRUE,
                             !.justification = Some(justification),
                             !.completedAt = Some(t)]]

\* mutant: the tasks are filtered by the id before they are mapped
CompleteTask_DropsOthers(prevTasks, taskId, justification, t) ==
    LET kept == SelectSeq(prevTasks, LAMBDA tk : tk.id = taskId)
    IN  [i \in 1..Len(kept) |->
            [kept[i] EXCEPT !.completed = TRUE,
                            !.justification = Some(justification),
                            !.completedAt = Some(t)]]

\* prevTasks.map(t => t.id === task.id ? {...t, completed, justification, completedAt} : t)
CompleteTask(prevTasks, taskId, justification, t) ==
    [i \in 1..Len(prevTasks) |->
        IF prevTasks[i].id = taskId
        THEN [prevTasks[i] EXCEPT !.completed = TRUE,
                                  !.justification = Some(justification),
                                  !.completedAt = Some(t)]
        ELSE prevTasks[i]]

\* mutant: the try branch completes the task but does not change the mode
ValidationSucceeded_KeepsMode(s, req, reply, t) ==
    LET s1 == [s EXCEPT !.tasks = CompleteTask(@, req.taskId, reply.chatResponse, t),
                        !.completedTasksCount = 1,
                        !.completionTimestamp = t]
    IN  addMessage(s1, "assistant", reply.chatResponse, t)

\* try branch of processEpsValidation (ChatPage.tsx:187-208)
ValidationSucceeded(s, req, reply, t) ==
    LET s1 == [s EXCEPT !.tasks = CompleteTask(@, req.taskId, reply.chatResponse, t),
                        !.completedTasksCount = 1,
                        !.appState = TASKS_COMPLETED,
                        !.completionTimestamp = t]
    IN  addMessage(s1, "assistant", reply.chatResponse, t)

\* mutant: the catch branch records the failure but leaves the mode alone
ValidationFailed_KeepsMode(s, req, reply, t) ==
    LET s1 == [s EXCEPT !.tasks = CompleteTask(@, req.taskId,
                                               ValidationFailedPrefix \o reply.error, t),
                        !.completedTasksCount = 1]
    IN  addMessage(s1, "assistant", MsgValidationError, t)

\* catch branch of processEpsValidation (ChatPage.tsx:209-230)
ValidationFailed(s, req, reply, t) ==
    LET s1 == [s EXCEPT !.tasks = CompleteTask(@, req.taskId,
                                               ValidationFailedPrefix \o reply.error, t),
                        !.completedTasksCount = 1,
                        !.appState = TASKS_COMPLETED]
    IN  addMessage(s1, "assistant", MsgValidationError, t)

\* mutant: setIsLoading(false) is at the end of the try branch, not in a finally
processEpsValidation_settled_StaysBusy(s, req, resp, t) ==
    LET reply == callChatAPI(resp)
        s1 == IF reply.threw
              THEN ValidationFailed(s, req, reply, t)
              ELSE [ValidationSucceeded(s, req, reply, t) EXCEPT !.isLoading = FALSE]
    IN  [s1 EXCEPT !.pending = @ \ {req}]

\* processEpsValidation after its await (ChatPage.tsx:187-233): req settled with resp
processEpsValidation_settled(s, req, resp, t) ==
    LET reply == callChatAPI(resp)
        s1 == IF reply.threw
              THEN ValidationFailed(s, req, reply, t)
              ELSE ValidationSucceeded(s, req, reply, t)
    IN  [s1 EXCEPT !.isLoading = FALSE, !.pending = @ \ {req}]

\* mutant: the new task is added to the collection instead of replacing it
handleFileConfirmation_AppendsTask(s, data, t) ==
    LET validationTask == [id |-> generateId(s),
                           description |-> TaskDescription,
                           completed |-> FALSE,
                           justification |-> None,
                           completedAt |-> None,
                           epsLogContent |-> data.epsLogContent,
                           testCaseContent |-> data.testCaseContent]
        s1 == [s EXCEPT !.currentFile = data.pathToFile,
                        !.showConfirmation = FALSE,
                        !.appState = TASK_MODE,
                        !.idCounter = generateId(s),
                        !.tasks = Append(@, validationTask),
                        !.completedTasksCount = 0]
        s2 == addMessage(s1, "assistant", MsgConfirmed(data.pathToFile), t)
    IN  processEpsValidation(s2, validationTask)

\* handleFileConfirmation up to the await inside processEpsValidation (ChatPage.tsx:146-173)
handleFileConfirmation(s, data, t) ==
    LET validationTask == [id |-> generateId(s),
                           description |-> TaskDescription,
                           completed |-> FALSE,
                           justification |-> None,
                           completedAt |-> None,
                           epsLogContent |-> data.epsLogContent,
                           testCaseContent |-> data.testCaseContent]
        s1 == [s EXCEPT !.currentFile = data.pathToFile,
                        !.showConfirmation = FALSE,
                        !.appState = TASK_MODE,
                        !.idCounter = generateId(s),
                        !.tasks = <<validationTask>>,
                        !.completedTasksCount = 0]
        s2 == addMessage(s1, "assistant", MsgConfirmed(data.pathToFile), t)
    IN  processEpsValidation(s2, validationTask)

SidebarActions == {"new-task", "history", "request-feature", "privacy"}

\* mutant: the form is opened from the chat mode only
handleSidebarNavigation_NewTaskWhenChatting(s, action, t) ==
    CASE action = "new-task" -> IF s.appState = CHATTING
                                THEN [s EXCEPT !.showConfirmation = TRUE]
                                ELSE s
      [] action = "history" -> s
      [] action = "request-feature" -> addMessage(s, "assistant", MsgFeature, t)
      [] action = "privacy" -> addMessage(s, "assistant", MsgPrivacy, t)
      [] OTHER -> s

\* mutant: the break after the request-feature case is missing
handleSidebarNavigation_FeatureFallsThrough(s, action, t) ==
    CASE action = "new-task" -> [s EXCEPT !.showConfirmation = TRUE]
      [] action = "history" -> s
      [] action = "request-feature" ->
            addMessage(addMessage(s, "assistant", MsgFeature, t), "assistant", MsgPrivacy, t)
      [] action = "privacy" -> addMessage(s, "assistant", MsgPrivacy, t)
      [] OTHER -> s

\* handleSidebarNavigation (ChatPage.tsx:237-259)
handleSidebarNavigation(s, action, t) ==
    CASE action = "new-task" -> [s EXCEPT !.showConfirmation = TRUE]
      [] action = "history" -> s
      [] action = "request-feature" -> addMessage(s, "assistant", MsgFeature, t)
      [] action = "privacy" -> addMessage(s, "assistant", MsgPrivacy, t)
      [] OTHER -> s

\* mutant: the reset does not empty the task collection
handleStartNewTask_KeepsTasks(s, t) ==
    LET s1 == [s EXCEPT !.appState = CHATTING,
                        !.completedTasksCount = 0,
                        !.currentFile = <<>>,
                        !.completionTimestamp = t]
    IN  addMessage(s1, "assistant", MsgNewTaskReady, t)

\* mutant: the reset keeps the name of the file validated last
handleStartNewTask_KeepsFile(s, t) ==
    LET s1 == [s EXCEPT !.appState = CHATTING,
                        !.tasks = <<>>,
                        !.completedTasksCount = 0,
                        !.completionTimestamp = t]
    IN  addMessage(s1, "assistant", MsgNewTaskReady, t)

\* handleStartNewTask (ChatPage.tsx:262-277)
handleStartNewTask(s, t) ==
    LET s1 == [s EXCEPT !.appState = CHATTING,
                        !.tasks = <<>>,
                        !.completedTasksCount = 0,
                        !.currentFile = <<>>,
                        !.completionTimestamp = t]
    IN  addMessage(s1, "assistant", MsgNewTaskReady, t)

\* onTestCaseDetected passed to ChatInterface (ChatPage.tsx:297-300)
onTestCaseDetected(s) == [s EXCEPT !.showConfirmation = TRUE]

\* mutant: cancelling the form also forgets the active file
onCancel_ClearsFile(s) == [s EXCEPT !.showConfirmation = FALSE, !.currentFile = <<>>]

\* mutant: cancelling the form also falls back to the chat mode
onCancel_ResetsMode(s) == [s EXCEPT !.showConfirmation = FALSE, !.appState = CHATTING]

\* onCancel passed to EpsConfirmation (ChatPage.tsx:333-336)
onCancel(s) == [s EXCEPT !.showConfirmation = FALSE]

----------------------------------------------------------------------------
(* Handlers of the two forms *)

\* ChatInterface.handleSubmit is blocked (ChatInterface.tsx:38-44)
SubmitBlocked(s, inputMessage) == Trim(inputMessage) = <<>> \/ s.isLoading

\* ChatInterface.handleSubmit (ChatInterface.tsx:35-59), as far as it touches the page
ChatInterface_handleSubmit(s, inputMessage, t) ==
    IF SubmitBlocked(s, inputMessage) THEN s
    ELSE IF isTestCase(inputMessage)
    THEN onTestCaseDetected(handleSendMessage(s, Trim(inputMessage), t))
    ELSE handleSendMessage(s, Trim(inputMessage), t)

\* mutant: the test of the test case is missing
FormRejected_NoTestCaseCheck(formData) ==
    \/ Trim(formData.pathToFile) = <<>>
    \/ Trim(formData.epsLogContent) = <<>>

\* EpsConfirmation.handleSubmit rejects the form (EpsConfirmation.tsx:67-77)
FormRejected(formData) ==
    \/ Trim(formData.pathToFile) = <<>>
    \/ Trim(formData.epsLogContent) = <<>>
    \/ Trim(formData.testCaseContent) = <<>>

\* EpsConfirmation.handleSubmit (EpsConfirmation.tsx:62-94), as far as it touches the page
EpsConfirmation_handleSubmit(s, formData, t) ==
    IF FormRejected(formData) THEN s
    ELSE handleFileConfirmation(s, [pathToFile |-> formData.pathToFile,
                                    epsLogContent |-> formData.epsLogContent,
                                    testCaseContent |-> formData.testCaseContent], t)

----------------------------------------------------------------------------
(* The state machine *)

NoForm == [pathToFile |-> <<>>, epsLogContent |-> <<>>, testCaseContent |-> <<>>]

\* what lastEvent records of a step: the event, the busy flag and the mode it
\* found, the request it issued or settled, the task that request was issued
\* for, whether callChatAPI threw, and the text or form the event carried
Event(op, s, rid, taskId, threw, text, form) ==
    [op |-> op, busy |-> s.isLoading, from |-> s.appState, rid |-> rid,
     taskId |-> taskId, threw |-> threw, text |-> text, form |-> form]

\* the page right after it is mounted
PageInit ==
    /\ appState = CHATTING
    /\ messages = <<>>
    /\ tasks = <<>>
    /\ completedTasksCount = 0
    /\ currentFile = <<>>
    /\ isLoading = FALSE
    /\ showConfirmation = FALSE
    /\ completionTimestamp = 0
    /\ pending = {}
    /\ idCounter = 0
    /\ reqCounter = 0
    /\ now = 0
    /\ nEvents = 0
    /\ lastEvent = [op |-> "mount", busy |-> FALSE, from |-> CHATTING, rid |-> 0,
                    taskId |-> 0, threw |-> FALSE, text |-> <<>>, form |-> NoForm]

NoCall == [fn |-> "none", content |-> <<>>, maxLength |-> 0]

Init ==
    /\ PageInit
    /\ call = NoCall
    /\ ret = None

\* a user event handled by the page: s2 is the state the handler leaves
UserStep(op, s2, text, form) ==
    /\ nEvents < MaxEvents
    /\ s2.reqCounter <= MaxRequests
    /\ Apply(s2)
    /\ now' = now + 1
    /\ nEvents' = nEvents + 1
    /\ lastEvent' = Event(op, Cur, IF s2.reqCounter > reqCounter THEN s2.reqCounter ELSE 0,
                          0, FALSE, text, form)
    /\ UNCHANGED <<call, ret>>

\* texts ChatInterface passes to onSendMessage
SentTexts == {Trim(i) : i \in ChatInputs} \ {<<>>}

\* the send intent reaches the page's onSendMessage callback
SendMessage(m) ==
    UserStep("send", handleSendMessage(Cur, m, now + 1), m, NoForm)

\* the user submits the chat box
SubmitChat(inputMessage) ==
    UserStep(IF SubmitBlocked(Cur, inputMessage) THEN "submit_blocked" ELSE "send",
             ChatInterface_handleSubmit(Cur, inputMessage, now + 1),
             Trim(inputMessage), NoForm)

\* the user presses Start Validation in the confirmation form, which is
\* rendered only while showConfirmation holds (ChatPage.tsx:329)
SubmitForm(formData) ==
    /\ showConfirmation
    /\ UserStep(IF FormRejected(formData) THEN "form_rejected" ELSE "confirm",
                EpsConfirmation_handleSubmit(Cur, formData, now + 1), <<>>, formData)

\* the user presses Cancel in the confirmation form
CancelForm ==
    /\ showConfirmation
    /\ UserStep("cancel", onCancel(Cur), <<>>, NoForm)

\* the user picks an item of the sidebar
Navigate(action) ==
    UserStep(action, handleSidebarNavigation(Cur, action, now + 1), <<>>, NoForm)

\* the user presses Start New Task in the completion panel, which is rendered
\* only in TASKS_COMPLETED (ChatPage.tsx:316-323)
StartNewTask ==
    /\ appState = TASKS_COMPLETED
    /\ UserStep("start_new_task", handleStartNewTask(Cur, now + 1), <<>>, NoForm)

\* the fetch() of an outstanding request settles and its caller resumes
Settle(req, resp) ==
    /\ req \in pending
    /\ Apply(IF req.kind = "chat"
             THEN handleSendMessage_settled(Cur, req, resp, now + 1)
             ELSE processEpsValidation_settled(Cur, req, resp, now + 1))
    /\ now' = now + 1
    /\ UNCHANGED nEvents
    /\ lastEvent' = Event(IF req.kind = "chat" THEN "chat_settled" ELSE "validation_settled",
                          Cur, req.rid, req.taskId, callChatAPI(resp).threw,
                          IF callChatAPI(resp).threw THEN callChatAPI(resp).error
                          ELSE callChatAPI(resp).chatResponse,
                          NoForm)
    /\ UNCHANGED <<call, ret>>

Next ==
    \/ \E m \in SentTexts : SendMessage(m)
    \/ \E i \in ChatInputs : SubmitChat(i)
    \/ \E f \in Forms : SubmitForm(f)
    \/ CancelForm
    \/ \E a \in SidebarActions : Navigate(a)
    \/ StartNewTask
    \/ \E req \in pending, resp \in Responses : Settle(req, resp)

Spec == Init /\ [][Next]_vars

\* every issued request eventually resolves or fails
FairSpec ==
    /\ Spec
    /\ \A r \in 1..MaxRequests :
          WF_vars(\E req \in pending, resp \in Responses : req.rid = r /\ Settle(req, resp))

TypeOK ==
    /\ appState \in {CHATTING, TASK_MODE, TASKS_COMPLETED}
    /\ isLoading \in BOOLEAN
    /\ showConfirmation \in BOOLEAN
    /\ completedTasksCount \in 0..1
    /\ Len(tasks) <= 1


----------------------------------------------------------------------------
(* Claims about the mode, the busy flag and the outstanding requests *)

AllTasksCompleted == \A i \in 1..Len(tasks) : tasks[i].completed

(* C1: if the mode is TASKS_COMPLETED then the task collection is          *)
(* non-empty and every task in it is completed.                            *)
C1_CompletedModeMeansAllDone ==
    appState = TASKS_COMPLETED => (tasks # <<>> /\ AllTasksCompleted)

(* C2: at most one model request is outstanding at any time.               *)
C2_AtMostOneOutstanding == Cardinality(pending) <= 1

(* C3: the busy flag is true if and only if a model request is             *)
(* outstanding.                                                            *)
C3_BusyIffOutstanding == isLoading <=> (pending # {})

(* C4: every change of mode is CHATTING to TASK_MODE, TASK_MODE to         *)
(* TASKS_COMPLETED or TASKS_COMPLETED to CHATTING.                         *)
C4_OnlyThreeModeChanges ==
    [][appState' # appState =>
          <<appState, appState'>> \in {<<CHATTING, TASK_MODE>>,
                                       <<TASK_MODE, TASKS_COMPLETED>>,
                                       <<TASKS_COMPLETED, CHATTING>>}]_vars

(* C5 as stated: once the mode is TASKS_COMPLETED, only the start new task *)
(* action moves it out of TASKS_COMPLETED.                                 *)
C5_ExitOnlyByStartNewTask ==
    [][(appState = TASKS_COMPLETED /\ appState' # TASKS_COMPLETED) =>
          lastEvent'.op = "start_new_task"]_vars

(* C5 as amended: once the mode is TASKS_COMPLETED it stays                *)
(* TASKS_COMPLETED until start new task is taken (which leads to CHATTING) *)
(* or a file and test case are confirmed (which leads to TASK_MODE); no    *)
(* send, test-case detection, sidebar intent, cancel or request completion *)
(* moves the mode out of TASKS_COMPLETED.                                  *)
C5_ExitOnlyByStartOrConfirm ==
    [][(appState = TASKS_COMPLETED /\ appState' # TASKS_COMPLETED) =>
          \/ lastEvent'.op = "start_new_task" /\ appState' = CHATTING
          \/ lastEvent'.op = "confirm" /\ appState' = TASK_MODE]_vars

\* a confirmation was received in TASKS_COMPLETED and moved the mode to TASK_MODE
C5_Witness ==
    /\ lastEvent.op = "confirm"
    /\ lastEvent.from = TASKS_COMPLETED
    /\ appState = TASK_MODE

----------------------------------------------------------------------------
(* C6: under the fairness of FairSpec, every confirmation of a file and a  *)
(* test case is eventually followed by a state in which the mode is        *)
(* TASKS_COMPLETED and the busy flag is false, and a busy session does not *)
(* stay busy forever.                                                      *)
C6_ConfirmLeadsToCompleted ==
    /\ (lastEvent.op = "confirm") ~> (appState = TASKS_COMPLETED /\ ~isLoading)
    /\ isLoading ~> ~isLoading

\* a validation issued by a confirmation has settled and left the page
\* completed and idle
C6_Witness ==
    /\ lastEvent.op = "validation_settled"
    /\ appState = TASKS_COMPLETED
    /\ ~isLoading
    /\ pending = {}

----------------------------------------------------------------------------
(* Claims about single handlers *)

\* messages' is messages followed by exactly one message of the given role and content
AppendedOne(role, content) ==
    /\ Len(messages') = Len(messages) + 1
    /\ SubSeq(messages', 1, Len(messages)) = messages
    /\ messages'[Len(messages')].role = role
    /\ messages'[Len(messages')].content = content

(* C7: confirming a file and test case, in one step and from whatever mode *)
(* it is received in, sets the active file name to the payload's, hides    *)
(* the form, sets the mode to TASK_MODE, replaces the task collection by   *)
(* exactly one uncompleted task with the fixed description and the         *)
(* payload's log and test case, sets the completed count to 0, appends     *)
(* exactly one assistant message, sets busy and issues exactly one         *)
(* validation request.                                                     *)
C7_ConfirmationEffect ==
    [][lastEvent'.op = "confirm" =>
          LET data == lastEvent'.form IN
          /\ currentFile' = data.pathToFile
          /\ ~showConfirmation'
          /\ appState' = TASK_MODE
          /\ Len(tasks') = 1
          /\ tasks'[1].description = TaskDescription
          /\ ~tasks'[1].completed
          /\ tasks'[1].justification = None
          /\ tasks'[1].epsLogContent = data.epsLogContent
          /\ tasks'[1].testCaseContent = data.testCaseContent
          /\ completedTasksCount' = 0
          /\ AppendedOne("assistant", MsgConfirmed(data.pathToFile))
          /\ isLoading'
          /\ pending \subseteq pending'
          /\ \E req \in pending' :
                /\ pending' \ pending = {req}
                /\ req.kind = "validation"
                /\ req.taskId = tasks'[1].id
                /\ req.epsLogContent = Some(data.epsLogContent)
                /\ req.testCaseContent = Some(data.testCaseContent)]_vars

\* a confirmation was received outside CHATTING, over an earlier task
C7_Witness ==
    /\ lastEvent.op = "confirm"
    /\ lastEvent.from # CHATTING
    /\ Len(tasks) = 1
    /\ isLoading

(* C8: when a validation request succeeds, the task it was issued for ends *)
(* completed with the reply as justification, the completed count is 1,    *)
(* the mode is TASKS_COMPLETED, the completion timestamp is updated, the   *)
(* reply is appended as exactly one assistant message and busy is cleared. *)
C8_ValidationSuccessEffect ==
    [][(lastEvent'.op = "validation_settled" /\ ~lastEvent'.threw) =>
          /\ \E i \in 1..Len(tasks') :
                /\ tasks'[i].id = lastEvent'.taskId
                /\ tasks'[i].completed
                /\ tasks'[i].justification = Some(lastEvent'.text)
          /\ completedTasksCount' = 1
          /\ appState' = TASKS_COMPLETED
          /\ completionTimestamp' = now'
          /\ AppendedOne("assistant", lastEvent'.text)
          /\ ~isLoading']_vars

(* C9: when a validation request fails, the task is marked completed with  *)
(* a justification that starts with 'Validation failed' and contains the   *)
(* error detail, the completed count is 1, the mode is TASKS_COMPLETED,    *)
(* one assistant apology message is appended and busy is cleared.          *)
C9_ValidationFailureEffect ==
    [][(lastEvent'.op = "validation_settled" /\ lastEvent'.threw) =>
          /\ \E i \in 1..Len(tasks') :
                /\ tasks'[i].id = lastEvent'.taskId
                /\ tasks'[i].completed
                /\ tasks'[i].justification = Some(ValidationFailedPrefix \o lastEvent'.text)
          /\ completedTasksCount' = 1
          /\ appState' = TASKS_COMPLETED
          /\ AppendedOne("assistant", MsgValidationError)
          /\ ~isLoading']_vars

(* C10: sending a free-text message while busy is a no-op: the messages,   *)
(* the mode, the tasks, the completed count, the active file name and the  *)
(* form flag are unchanged and no model request is issued.                 *)
C10_SendWhileBusyIsNoOp ==
    [][(lastEvent'.op \in {"send", "submit_blocked"} /\ isLoading) =>
          UNCHANGED <<messages, appState, tasks, completedTasksCount, currentFile,
                      showConfirmation, isLoading, pending, reqCounter>>]_vars

\* a send reached the page while a request was outstanding
C10_Witness ==
    /\ lastEvent.op = "send"
    /\ lastEvent.busy
    /\ isLoading
    /\ pending # {}

----------------------------------------------------------------------------
(* Claims about the chat path, the reset and the message sequence *)

\* the step issues exactly one request, of the given kind and with the given message
IssuedOne(kind, message) ==
    /\ pending \subseteq pending'
    /\ \E req \in pending' :
          /\ pending' \ pending = {req}
          /\ req.kind = kind
          /\ req.message = message
          /\ req.epsLogContent = None
          /\ req.testCaseContent = None

(* C11: a free-text send that does not match the test-case pattern, taken  *)
(* while not busy, appends one user message, sets busy and issues exactly  *)
(* one model request with the raw text; when that request settles exactly  *)
(* one assistant message is appended (the reply on success, the fixed      *)
(* apology on failure) and busy is cleared; neither step changes the mode, *)
(* the task collection or the completed count.                             *)
C11_FreeTextSendEffect ==
    [][/\ (lastEvent'.op = "send" /\ ~isLoading /\ ~isTestCase(lastEvent'.text)) =>
             /\ AppendedOne("user", lastEvent'.text)
             /\ isLoading'
             /\ IssuedOne("chat", lastEvent'.text)
             /\ UNCHANGED <<appState, tasks, completedTasksCount>>
       /\ lastEvent'.op = "chat_settled" =>
             /\ AppendedOne("assistant",
                            IF lastEvent'.threw THEN MsgSendError ELSE lastEvent'.text)
             /\ ~isLoading'
             /\ \E req \in pending : req.rid = lastEvent'.rid /\ pending' = pending \ {req}
             /\ UNCHANGED <<appState, tasks, completedTasksCount>>]_vars

\* a chat request failed and the apology is the last message
C11_Witness ==
    /\ lastEvent.op = "chat_settled"
    /\ lastEvent.threw
    /\ messages[Len(messages)].content = MsgSendError
    /\ ~isLoading

(* C12: a send that matches the test-case pattern, taken while not busy,   *)
(* appends exactly one user message with the text and exactly one          *)
(* assistant message asking for the log file, sets the form flag, issues   *)
(* no model request and leaves busy, the mode and the tasks unchanged.     *)
C12_TestCaseSendEffect ==
    [][(lastEvent'.op = "send" /\ ~isLoading /\ isTestCase(lastEvent'.text)) =>
          /\ Len(messages') = Len(messages) + 2
          /\ SubSeq(messages', 1, Len(messages)) = messages
          /\ messages'[Len(messages) + 1].role = "user"
          /\ messages'[Len(messages) + 1].content = lastEvent'.text
          /\ messages'[Len(messages) + 2].role = "assistant"
          /\ messages'[Len(messages) + 2].content = MsgTestCaseDetected
          /\ showConfirmation'
          /\ UNCHANGED <<pending, reqCounter, isLoading, appState, tasks,
                         completedTasksCount>>]_vars

\* a test case was pasted into the chat while idle and the form is open
C12_Witness ==
    /\ lastEvent.op = "send"
    /\ ~lastEvent.busy
    /\ isTestCase(lastEvent.text)
    /\ showConfirmation
    /\ messages[Len(messages)].content = MsgTestCaseDetected

(* C13: start new task, taken from TASKS_COMPLETED, empties the task       *)
(* collection, sets the completed count to 0, the active file name to      *)
(* empty and the mode to CHATTING, appends exactly one assistant message   *)
(* and keeps every earlier message.                                        *)
C13_StartNewTaskEffect ==
    [][(lastEvent'.op = "start_new_task" /\ appState = TASKS_COMPLETED) =>
          /\ tasks' = <<>>
          /\ completedTasksCount' = 0
          /\ currentFile' = <<>>
          /\ appState' = CHATTING
          /\ AppendedOne("assistant", MsgNewTaskReady)]_vars

\* the page was reset after a validation and the earlier messages are still there
C13_Witness ==
    /\ lastEvent.op = "start_new_task"
    /\ lastEvent.from = TASKS_COMPLETED
    /\ appState = CHATTING
    /\ tasks = <<>>
    /\ Len(messages) >= 3

\* a is a prefix of b
IsPrefix(a, b) == Len(a) <= Len(b) /\ SubSeq(b, 1, Len(a)) = a

(* C14: the message sequence is append-only: the message sequence of a     *)
(* state is a prefix of the message sequence of every later state.         *)
C14_MessagesAppendOnly == [][IsPrefix(messages, messages')]_vars

\* a reset or a confirmation was handled and the earlier messages are kept
C14_Witness ==
    /\ lastEvent.op \in {"start_new_task", "confirm"}
    /\ Len(messages) >= 3
    /\ messages[1].id < messages[2].id
    /\ messages[2].id < messages[3].id

----------------------------------------------------------------------------
(* Claims about the sidebar and the confirmation form *)

(* C15: the sidebar intent new-task sets the form flag in every mode and   *)
(* leaves the mode, the tasks, the completed count, the active file name,  *)
(* the busy flag and the messages unchanged.                               *)
C15_NewTaskOpensFormOnly ==
    [][lastEvent'.op = "new-task" =>
          /\ showConfirmation'
          /\ UNCHANGED <<appState, tasks, completedTasksCount, currentFile, isLoading,
                         messages, pending>>]_vars

\* the form was opened over a validation in flight
C15_Witness ==
    /\ lastEvent.op = "new-task"
    /\ lastEvent.from = TASK_MODE
    /\ lastEvent.busy
    /\ showConfirmation

(* C16: the sidebar intent history changes no session state; the intents   *)
(* request-feature and privacy each append exactly one assistant message   *)
(* and change nothing else, in every mode and with or without a request in *)
(* flight.                                                                 *)
C16_OtherSidebarIntents ==
    [][/\ lastEvent'.op = "history" =>
             UNCHANGED <<appState, messages, tasks, completedTasksCount, currentFile,
                         isLoading, showConfirmation, completionTimestamp, pending>>
       /\ lastEvent'.op = "request-feature" =>
             /\ AppendedOne("assistant", MsgFeature)
             /\ UNCHANGED <<appState, tasks, completedTasksCount, currentFile,
                            isLoading, showConfirmation, completionTimestamp, pending>>
       /\ lastEvent'.op = "privacy" =>
             /\ AppendedOne("assistant", MsgPrivacy)
             /\ UNCHANGED <<appState, tasks, completedTasksCount, currentFile,
                            isLoading, showConfirmation, completionTimestamp, pending>>]_vars

\* a feature request was made while a request was in flight
C16_Witness ==
    /\ lastEvent.op = "request-feature"
    /\ lastEvent.busy
    /\ pending # {}
    /\ messages[Len(messages)].content = MsgFeature

(* C17: a submission of the confirmation form in which the log content or  *)
(* the test-case content is empty or only white space never reaches the    *)
(* page: onConfirm is not called and no session state changes.             *)
C17_BlankFormNeverConfirmed ==
    [][(/\ lastEvent'.op \in {"form_rejected", "confirm"}
        /\ \/ Trim(lastEvent'.form.epsLogContent) = <<>>
           \/ Trim(lastEvent'.form.testCaseContent) = <<>>) =>
          /\ lastEvent'.op = "form_rejected"
          /\ UNCHANGED <<appState, messages, tasks, completedTasksCount, currentFile,
                         isLoading, showConfirmation, completionTimestamp, pending,
                         idCounter, reqCounter>>]_vars

\* a form with a blank test case was submitted and turned down
C17_Witness ==
    /\ lastEvent.op = "form_rejected"
    /\ Trim(lastEvent.form.testCaseContent) = <<>>
    /\ lastEvent.form.epsLogContent # <<>>
    /\ showConfirmation

----------------------------------------------------------------------------
(* Claims about the life of a task *)

TaskIds(ts) == {ts[i].id : i \in 1..Len(ts)}

(* C18 as stated: a task that is in the task collection is removed from it *)
(* only by the start new task action.                                      *)
C18_RemovedOnlyByStartNewTask ==
    [][~(TaskIds(tasks) \subseteq TaskIds(tasks')) =>
          lastEvent'.op = "start_new_task"]_vars

(* C18 as amended: a task that is in the task collection is removed from   *)
(* it only by the start new task action, which empties the collection, or  *)
(* by a file and test-case confirmation, which replaces the collection by  *)
(* the one new task; no send, sidebar intent, cancel or request completion *)
(* drops a task.                                                           *)
C18_RemovedOnlyByStartOrConfirm ==
    [][~(TaskIds(tasks) \subseteq TaskIds(tasks')) =>
          \/ lastEvent'.op = "start_new_task" /\ tasks' = <<>>
          \/ /\ lastEvent'.op = "confirm"
             /\ Len(tasks') = 1
             /\ tasks'[1].id \notin TaskIds(tasks)]_vars

\* a second confirmation replaced the task of a validation still in flight
C18_Witness ==
    /\ lastEvent.op = "confirm"
    /\ lastEvent.from = TASK_MODE
    /\ lastEvent.busy
    /\ Cardinality(pending) = 2
    /\ \E req \in pending : req.kind = "validation" /\ req.taskId \notin TaskIds(tasks)

(* C19: every task created by a confirmation is mutated exactly once       *)
(* during its life: its completion flag goes from false to true exactly    *)
(* one time, by the handler of its own validation result, and never        *)
(* returns to false; so no task leaves the collection uncompleted.         *)
C19_TaskCompletedExactlyOnce ==
    [][\A i \in 1..Len(tasks) :
          LET after == {j \in 1..Len(tasks') : tasks'[j].id = tasks[i].id} IN
          /\ tasks[i].completed => \A j \in after : tasks'[j].completed
          /\ (~tasks[i].completed /\ \E j \in after : tasks'[j].completed) =>
                (lastEvent'.op = "validation_settled" /\ lastEvent'.taskId = tasks[i].id)
          /\ ~tasks[i].completed => after # {}]_vars

----------------------------------------------------------------------------
(* truncateContent as a function of its arguments: one call per behaviour  *)

ContentAlphabet == <<"a", "b", " ">>

\* the content of length n handed to truncateContent
ContentOfLength(n) == [i \in 1..n |-> ContentAlphabet[(i % 3) + 1]]

TruncContents == {ContentOfLength(n) : n \in 0..MaxContentLen}

TruncMaxLengths == (-1)..(MaxContentLen + 1)

TruncInit ==
    /\ PageInit
    /\ call \in [fn : {"truncateContent"}, content : TruncContents,
                 maxLength : TruncMaxLengths]
    /\ ret = None

\* the call returns
TruncReturn ==
    /\ call.fn = "truncateContent"
    /\ ret = None
    /\ ret' = Some(truncateContent(call.content, call.maxLength))
    /\ UNCHANGED <<appState, messages, tasks, completedTasksCount, currentFile, isLoading,
                   showConfirmation, completionTimestamp, pending, idCounter, reqCounter,
                   now, nEvents, lastEvent, call>>

TruncNext == TruncReturn

TruncSpec == TruncInit /\ [][TruncNext]_vars

(* C20: for every content and every maxLength with length(content) <=      *)
(* maxLength, truncateContent(content, maxLength) returns the content      *)
(* unchanged.                                                              *)
C20_TruncateIdentity ==
    (ret # None /\ Len(call.content) <= call.maxLength) => ret[1] = call.content

\* a call with a content exactly as long as the limit has returned
C20_Witness ==
    /\ call.fn = "truncateContent"
    /\ ret # None
    /\ Len(call.content) = call.maxLength
    /\ call.maxLength >= 100
    /\ ret[1] = call.content

(* C21: for every content and every maxLength, also below 100, with        *)
(* length(content) > maxLength, truncateContent returns the first          *)
(* maxLength - 100 characters of the content followed by the suffix that   *)
(* states the original length and the limit, so the output is              *)
(* maxLength - 100 + length(suffix) characters long.                       *)
C21_TruncateCutsToLimit ==
    (ret # None /\ Len(call.content) > call.maxLength) =>
        LET suffix == TruncationSuffix(Len(call.content), call.maxLength) IN
        /\ ret[1] = SubSeq(call.content, 1, call.maxLength - 100) \o suffix
        /\ CharLen(ret[1]) = call.maxLength - 100 + CharLen(suffix)

----------------------------------------------------------------------------
(* buildEpsValidationPrompt as a function of its arguments                 *)

PromptAlphabet == {"a", "[", "]"}

\* the logs and test cases handed to buildEpsValidationPrompt
PromptTexts == UNION {[1..n -> PromptAlphabet] : n \in 0..MaxTextLen}

PromptInit ==
    /\ PageInit
    /\ call \in [fn : {"buildEpsValidationPrompt"}, epsLogContent : PromptTexts,
                 testCaseContent : PromptTexts]
    /\ ret = None

\* the call returns
PromptReturn ==
    /\ call.fn = "buildEpsValidationPrompt"
    /\ ret = None
    /\ ret' = Some(buildEpsValidationPrompt(call.epsLogContent, call.testCaseContent))
    /\ UNCHANGED <<appState, messages, tasks, completedTasksCount, currentFile, isLoading,
                   showConfirmation, completionTimestamp, pending, idCounter, reqCounter,
                   now, nEvents, lastEvent, call>>

PromptNext == PromptReturn

PromptSpec == PromptInit /\ [][PromptNext]_vars

\* sub occurs in text as a contiguous run of tokens that starts at position i
OccursAt(text, i, sub) ==
    /\ i + Len(sub) - 1 <= Len(text)
    /\ SubSeq(text, i, i + Len(sub) - 1) = sub

EndsWith(text, sub) ==
    /\ Len(sub) <= Len(text)
    /\ SubSeq(text, Len(text) - Len(sub) + 1, Len(text)) = sub

(* C22: for all logs and test cases the prompt built by                    *)
(* buildEpsValidationPrompt contains the log and the test case each as a   *)
(* contiguous substring, the log before the test case, and ends with the   *)
(* fixed user instruction.                                                 *)
C22_PromptContainsInputs ==
    ret # None =>
        /\ \E i, j \in 1..(Len(ret[1]) + 1) :
              /\ OccursAt(ret[1], i, call.epsLogContent)
              /\ OccursAt(ret[1], j, call.testCaseContent)
              /\ i + Len(call.epsLogContent) <= j
        /\ EndsWith(ret[1], UserInstruction)

\* a prompt was built from a log and a different test case, both non-empty
C22_Witness ==
    /\ call.fn = "buildEpsValidationPrompt"
    /\ ret # None
    /\ call.epsLogContent = <<"a", "]">>
    /\ call.testCaseContent = <<"[", "a">>
    /\ EndsWith(ret[1], UserInstruction)

----------------------------------------------------------------------------
(* One call of a client of the model endpoint: callChatAPI of the page,    *)
(* sendChatMessage of api/chat.ts or the mock route.  The call issues its  *)
(* fetch(), the endpoint answers, the call returns or throws.              *)

ModelClients == {"callChatAPI", "sendChatMessage"}

\* a content one character longer than the default limit of truncateContent
LongContent == ContentOfLength(DefaultMaxLength + 1)

ClientMessages == {<<>>, <<"h", "i">>}

ClientLogs == {None, Some(<<>>), Some(<<" ">>), Some(<<"L", "1">>)}

ClientTestCases == {None, Some(<<>>), Some(<<" ">>), Some(<<"T", "1">>)}

ClientCalls ==
    [fn : ModelClients, message : ClientMessages, epsLogContent : ClientLogs,
     testCaseContent : ClientTestCases]
    \cup [fn : ModelClients, message : {<<>>}, epsLogContent : {Some(LongContent)},
          testCaseContent : {Some(<<"T", "1">>)}]
    \cup [fn : ModelClients, message : {<<>>}, epsLogContent : {Some(<<"L", "1">>)},
          testCaseContent : {Some(LongContent)}]
    \cup [fn : {"POST"}, message : ClientMessages, epsLogContent : {None},
          testCaseContent : {None}]

\* an optional string field of the response body: absent, '' or a text
ClientField(text) == {None, Some(<<>>), Some(text)}

\* what the endpoint can answer: as Responses, with every combination of the
\* reply fields and with data.choices[0].message.content
ClientResponses ==
    [net : {TRUE}, status : {200}, json : {TRUE}, message : ClientField(<<"m">>),
     content : ClientField(<<"c">>), choices : ClientField(<<"k">>)]
    \cup [net : {TRUE}, status : {200, 204}, json : {FALSE}, message : {None},
          content : {None}, choices : {None}]
    \cup [net : {TRUE}, status : {404, 500}, json : {TRUE}, message : {None},
          content : {None}, choices : {None}]
    \cup [net : {FALSE}, status : {0}, json : {TRUE}, message : {None},
          content : {None}, choices : {None}]

ClientInit ==
    /\ PageInit
    /\ call \in ClientCalls
    /\ ret = None

\* the call reaches its fetch(): the request is on its way
ClientFetch ==
    /\ call.fn \in ModelClients \cup {"POST"}
    /\ ret = None
    /\ reqCounter = 0
    /\ pending' = {[rid |-> reqCounter + 1,
                    prompt |-> IF call.fn = "callChatAPI"
                               THEN callChatAPI_prompt(call.message, call.epsLogContent,
                                                       call.testCaseContent)
                               ELSE IF call.fn = "sendChatMessage"
                               THEN sendChatMessage_prompt(call.message, call.epsLogContent,
                                                           call.testCaseContent)
                               ELSE call.message]}
    /\ reqCounter' = reqCounter + 1
    /\ UNCHANGED <<appState, messages, tasks, completedTasksCount, currentFile, isLoading,
                   showConfirmation, completionTimestamp, idCounter, now, nEvents,
                   lastEvent, call, ret>>

\* the fetch() settles with resp and the call ends
ClientSettle(req, resp) ==
    /\ req \in pending
    /\ ret = None
    /\ ret' = Some([resp |-> resp,
                    out |-> IF call.fn = "callChatAPI" THEN callChatAPI(resp)
                            ELSE IF call.fn = "sendChatMessage" THEN sendChatMessage(resp)
                            ELSE POST(resp)])
    /\ pending' = pending \ {req}
    /\ UNCHANGED <<appState, messages, tasks, completedTasksCount, currentFile, isLoading,
                   showConfirmation, completionTimestamp, idCounter, reqCounter, now,
                   nEvents, lastEvent, call>>

ClientNext ==
    \/ ClientFetch
    \/ \E req \in pending, resp \in ClientResponses : ClientSettle(req, resp)

ClientSpec == ClientInit /\ [][ClientNext]_vars

\* both optional contents are present and not empty
BothContentsPresent ==
    /\ call.epsLogContent # None /\ call.epsLogContent[1] # <<>>
    /\ call.testCaseContent # None /\ call.testCaseContent[1] # <<>>

(* C23: the prompt a model client sends is                                 *)
(* buildEpsValidationPrompt(truncateContent(log), truncateContent(test     *)
(* case)) exactly when the log content and the test-case content are both  *)
(* present and non-empty; in every other case it is the message verbatim.  *)
C23_PromptSelection ==
    \A req \in pending :
        call.fn \in ModelClients =>
            IF BothContentsPresent
            THEN req.prompt =
                     buildEpsValidationPrompt(
                         truncateContent(call.epsLogContent[1], DefaultMaxLength),
                         truncateContent(call.testCaseContent[1], DefaultMaxLength))
            ELSE req.prompt = call.message

\* a request is on its way whose prompt holds a log cut to the default limit
C23_Witness ==
    /\ call.fn = "callChatAPI"
    /\ call.epsLogContent = Some(LongContent)
    /\ \E req \in pending :
          /\ req.prompt # buildEpsValidationPrompt(LongContent, call.testCaseContent[1])
          /\ req.prompt =
                 buildEpsValidationPrompt(
                     SubSeq(LongContent, 1, DefaultMaxLength - 100)
                         \o TruncationSuffix(DefaultMaxLength + 1, DefaultMaxLength),
                     call.testCaseContent[1])

\* the endpoint did not answer, or answered with a status outside 200..299
RequestFailed(resp) == ~resp.net \/ ~(resp.status \in 200..299)

\* the error message a call ended with: thrown, or in the error field
ErrorText(fn, out) ==
    IF fn = "callChatAPI" THEN out.error
    ELSE IF out.error = None THEN <<>> ELSE out.error[1]

(* C24: on a non-success HTTP status or a network-level failure the call   *)
(* of a model client fails to its caller with an error, which carries the  *)
(* status code in the non-2xx case, rather than returning a reply; exactly *)
(* one HTTP request is issued per call.                                    *)
C24_FailureThrowsOnce ==
    (ret # None /\ call.fn \in ModelClients /\ RequestFailed(ret[1].resp)) =>
        /\ ret[1].out.threw
        /\ ret[1].resp.net =>
              \E i \in 1..Len(ErrorText(call.fn, ret[1].out)) :
                  ErrorText(call.fn, ret[1].out)[i] = ToString(ret[1].resp.status)
        /\ reqCounter = 1
        /\ pending = {}

\* the reply text a call of a model client returned
ReplyText(fn, out) == IF fn = "callChatAPI" THEN out.chatResponse ELSE out.reply

\* the call ended as a failure: it threw, or it returned with its error field set
EndedAsFailure(fn, out) == out.threw \/ (fn = "sendChatMessage" /\ out.error # None)

(* C25: a 2xx response never makes a model client fail, whatever its body; *)
(* when the body has no recognized reply field, also when it is not a      *)
(* parseable object, the call returns the reply 'No reply from model'.     *)
C25_SuccessStatusNeverFails ==
    (ret # None /\ call.fn \in ModelClients
        /\ ret[1].resp.net /\ ret[1].resp.status \in 200..299) =>
        /\ ~EndedAsFailure(call.fn, ret[1].out)
        /\ (~ret[1].resp.json \/ (ret[1].resp.message = None /\ ret[1].resp.content = None))
              => ReplyText(call.fn, ret[1].out) = MsgNoReply

\* the reply a call returned to its caller after a 2xx response
ReturnedReply(fn, out) == IF fn = "POST" THEN out.reply[1] ELSE ReplyText(fn, out)

\* a 2xx response whose body is JSON text has arrived and the call has returned
ParsedSuccess ==
    /\ ret # None
    /\ ret[1].resp.net
    /\ ret[1].resp.status \in 200..299
    /\ ret[1].resp.json

----------------------------------------------------------------------------
(* ShowCompletionAndJustification.tsx:44-47: what the completion panel     *)
(* shows of the justification of the first completed task.  The            *)
(* justification is a sequence of single characters.                       *)

LitOverallResult == <<"o","v","e","r","a","l","l"," ","r","e","s","u","l","t",":">>

LitPass == <<"p","a","s","s">>

LitFail == <<"f","a","i","l">>

MarkerReasoning == <<"R","e","a","s","o","n","i","n","g"," ","a","n","d"," ","E","v","i","d","e","n","c","e",":">>

MsgUnknown == <<"Unknown">>

MsgNoJustification == <<"No justification provided">>

\* \s* from position i: the position of the first character that is not white space
SkipSpaces(s, i) ==
    CHOOSE j \in i..(Len(s) + 1) :
        /\ j = Len(s) + 1 \/ ~IsSpace(s[j])
        /\ \A k \in i..(j - 1) : IsSpace(s[k])

\* the positions where /Overall Result:\s*(PASS|FAIL)/i matches in s
OverallResultMatches(s) ==
    {i \in 1..Len(s) :
        /\ MatchesAt(s, i, LitOverallResult)
        /\ LET j == SkipSpaces(s, i + Len(LitOverallResult))
           IN  MatchesAt(s, j, LitPass) \/ MatchesAt(s, j, LitFail)}

\* the least element of a non-empty set of positions
First(S) == CHOOSE i \in S : \A k \in S : i <= k

\* mutant: without a match the result defaults to PASS
overallResult_DefaultsToPass(justification) ==
    IF justification = None \/ OverallResultMatches(justification[1]) = {}
    THEN <<"P","A","S","S">>
    ELSE LET s == justification[1]
             j == SkipSpaces(s, First(OverallResultMatches(s)) + Len(LitOverallResult))
         IN  SubSeq(s, j, j + 3)

\* overallResult: group 1 of the first match, as written in the justification
overallResult(justification) ==
    IF justification = None \/ OverallResultMatches(justification[1]) = {}
    THEN MsgUnknown
    ELSE LET s == justification[1]
             j == SkipSpaces(s, First(OverallResultMatches(s)) + Len(LitOverallResult))
         IN  SubSeq(s, j, j + 3)

\* the positions where the marker occurs in s at or after position from
MarkerPositions(s, from) ==
    {i \in from..Len(s) : OccursAt(s, i, MarkerReasoning)}

\* justification.split('Reasoning and Evidence:')[1]: the text between the
\* first marker and the next one, or the end
SecondPiece(s) ==
    LET start == First(MarkerPositions(s, 1)) + Len(MarkerReasoning)
        stop == IF MarkerPositions(s, start) = {} THEN Len(s) + 1
                ELSE First(MarkerPositions(s, start))
    IN  SubSeq(s, start, stop - 1)

\* reasoningAndEvidence
reasoningAndEvidence(justification) ==
    IF justification = None \/ justification[1] = <<>>
    THEN MsgNoJustification
    ELSE IF MarkerPositions(justification[1], 1) # {}
            /\ Trim(SecondPiece(justification[1])) # <<>>
    THEN Trim(SecondPiece(justification[1]))
    ELSE justification[1]

\* what a justification can say about the result
ResultLines ==
    { <<"O","v","e","r","a","l","l"," ","R","e","s","u","l","t",":"," ","P","A","S","S">>,
      <<"O","v","e","r","a","l","l"," ","R","e","s","u","l","t",":"," ","F","A","I","L">>,
      <<"o","v","e","r","a","l","l"," ","r","e","s","u","l","t",":"," ","p","a","s","s">>,
      <<"O","v","e","r","a","l","l"," ","R","e","s","u","l","t",":","\n"," ","F","a","i","l">>,
      <<"O","v","e","r","a","l","l"," ","R","e","s","u","l","t",":","P","A","S","S","E","D">>,
      <<"O","v","e","r","a","l","l"," ","R","e","s","u","l","t",":"," ","O","K">>,
      <<"R","e","s","u","l","t",":"," ","P","A","S","S">>,
      <<>> }

\* what a justification can say about the reasons
ReasoningParts ==
    { <<>>,
      <<"R","e","a","s","o","n","i","n","g"," ","a","n","d"," ","E","v","i","d","e","n","c","e",":","\n","s","t","e","p"," ","d","e","t","a","i","l","s">>,
      <<"R","e","a","s","o","n","i","n","g"," ","a","n","d"," ","E","v","i","d","e","n","c","e",":">>,
      <<"R","e","a","s","o","n","i","n","g"," ","a","n","d"," ","E","v","i","d","e","n","c","e",":"," ","\n">>,
      <<"R","e","a","s","o","n","i","n","g"," ","a","n","d"," ","E","v","i","d","e","n","c","e",":"," ","a"," ","R","e","a","s","o","n","i","n","g"," ","a","n","d"," ","E","v","i","d","e","n","c","e",":"," ","b">>,
      <<"r","e","a","s","o","n","i","n","g"," ","a","n","d"," ","e","v","i","d","e","n","c","e",":"," ","x">>,
      <<"x">> }

\* the justifications of the first completed task: absent, or a text
Justifications ==
    {None} \cup {Some(p \o r \o <<"\n">> \o e) :
                    p \in {<<>>, <<"n","o","t","e"," ">>}, r \in ResultLines, e \in ReasoningParts}

DisplayInit ==
    /\ PageInit
    /\ call \in [fn : {"ShowCompletionAndJustification"}, justification : Justifications]
    /\ ret = None

\* the panel is rendered
DisplayRender ==
    /\ call.fn = "ShowCompletionAndJustification"
    /\ ret = None
    /\ ret' = Some([overallResult |-> overallResult(call.justification),
                    reasoningAndEvidence |-> reasoningAndEvidence(call.justification)])
    /\ UNCHANGED <<appState, messages, tasks, completedTasksCount, currentFile, isLoading,
                   showConfirmation, completionTimestamp, pending, idCounter, reqCounter,
                   now, nEvents, lastEvent, call>>

DisplayNext == DisplayRender

DisplaySpec == DisplayInit /\ [][DisplayNext]_vars

(* C27: the displayed overall result of a completed task is PASS or FAIL   *)
(* when its justification contains 'Overall Result:' followed by PASS or   *)
(* FAIL in any letter case, and 'Unknown' otherwise; a justification       *)
(* containing 'Overall Result: FAIL' yields exactly FAIL.                   *)
C27_OverallResultIsPassOrFail ==
    (ret # None /\ call.justification # None) =>
        LET s == call.justification[1] IN
        /\ OverallResultMatches(s) # {} =>
              ret[1].overallResult \in {<<"P","A","S","S">>, <<"F","A","I","L">>}
        /\ OverallResultMatches(s) = {} => ret[1].overallResult = MsgUnknown
        /\ OccursAt(s, 1, <<"O","v","e","r","a","l","l"," ","R","e","s","u","l","t",":"," ","F","A","I","L">>) =>
              ret[1].overallResult = <<"F","A","I","L">>

(* C28: the displayed explanation of a completed task is the whole         *)
(* remainder of the justification after the first 'Reasoning and           *)
(* Evidence:' marker, trimmed, whenever the marker is present, also when   *)
(* it occurs more than once or nothing follows it, and is the entire       *)
(* justification exactly when the marker is absent.                        *)
C28_ExplanationIsRemainder ==
    (ret # None /\ call.justification # None) =>
        LET s == call.justification[1] IN
        IF MarkerPositions(s, 1) # {}
        THEN ret[1].reasoningAndEvidence =
                 Trim(SubSeq(s, First(MarkerPositions(s, 1)) + Len(MarkerReasoning), Len(s)))
        ELSE ret[1].reasoningAndEvidence = s

----------------------------------------------------------------------------
(* Failed requests *)

\* in page state s at time t the page takes a send (the user message is
\* appended), a confirmation (a new task is created) and the sidebar intents
\* (the form is open after new-task, a message is appended after
\* request-feature and privacy)
AcceptsEvents(s, t) ==
    /\ \A m \in SentTexts : Len(handleSendMessage(s, m, t).messages) > Len(s.messages)
    /\ \A f \in Forms :
          ~FormRejected(f) =>
              LET s2 == handleFileConfirmation(s, f, t)
              IN  /\ s2.appState = TASK_MODE
                  /\ Len(s2.tasks) = 1 /\ s2.tasks[1].id \notin TaskIds(s.tasks)
                  /\ s2.reqCounter = s.reqCounter + 1
    /\ handleSidebarNavigation(s, "new-task", t).showConfirmation
    /\ \A a \in {"request-feature", "privacy"} :
          Len(handleSidebarNavigation(s, a, t).messages) = Len(s.messages) + 1

(* C29: every failed model request, of a free-text send and of a           *)
(* validation alike, appends exactly one assistant message to the chat and *)
(* leaves busy = false in a state in which send, confirm and sidebar       *)
(* events are accepted again.                                              *)
C29_FailureLeavesSessionUsable ==
    [][(lastEvent'.op \in {"chat_settled", "validation_settled"} /\ lastEvent'.threw) =>
          /\ Len(messages') = Len(messages) + 1
          /\ SubSeq(messages', 1, Len(messages)) = messages
          /\ messages'[Len(messages')].role = "assistant"
          /\ ~isLoading'
          /\ AcceptsEvents(Cur', now' + 1)]_vars

\* a validation request has just failed while no other request was pending
C29_Witness ==
    /\ lastEvent.op = "validation_settled"
    /\ lastEvent.threw
    /\ pending = {}
    /\ ~isLoading
    /\ messages[Len(messages)].content = MsgValidationError
    /\ AcceptsEvents(Cur, now + 1)

----------------------------------------------------------------------------
(* The test-case detection as a function of the text                       *)
(* (ChatPage.tsx:104, ChatInterface.tsx:47)                                *)

ToUpper(c) ==
    IF \E i \in 1..26 : LowerLetters[i] = c
    THEN UpperLetters[CHOOSE i \in 1..26 : LowerLetters[i] = c]
    ELSE c

LowerCase(text) == [i \in 1..Len(text) |-> ToLower(text[i])]

UpperCase(text) == [i \in 1..Len(text) |-> ToUpper(text[i])]

\* the three texts that each hold one token of the pattern
DetectExamples ==
    { <<"{","T","e","s","t","C","a","s","e","I","D",":"," ","\"","T","C","1","\"","}">>,
      <<"S","t","e","p","N","o",":"," ","1">>,
      <<"<","S","t","e","p","N","o",">","1","<","/","S","t","e","p","N","o",">">> }

\* texts near the tokens of the pattern
DetectOthers ==
    { <<"S","t","e","p","N","o","X">>,
      <<"S","t","e","p","N","o","_","1">>,
      <<"S","t","e","p","N","o","1">>,
      <<"T","e","s","t","C","a","s","e","I","D",":"," ","1">>,
      <<"S","t","e","p"," ","N","o"," ","1">>,
      <<"h","e","l","l","o">>,
      <<>>,
      <<"M","y","S","t","e","p","N","o",":"," ","1">>,
      <<"<","S","t","e","p","N","o","X",">">>,
      <<"{","T","e","s","t","C","a","s","e","I","D","s">>,
      <<"S","t","e","p","N","o">>,
      <<"S","t","e","p","s",":"," ","1">>,
      <<"{","T","e","s","t"," ","C","a","s","e","I","D","}">> }

\* every text as written, in lower case and in upper case, alone and after
\* other words
DetectTexts ==
    UNION {{p \o t, p \o LowerCase(t), p \o UpperCase(t)} :
              p \in {<<>>, <<"r","u","n"," ">>}, t \in DetectExamples \cup DetectOthers}

DetectInit ==
    /\ PageInit
    /\ call \in [fn : {"isTestCase"}, text : DetectTexts]
    /\ ret = None

\* the pattern is tested against the text
DetectTest ==
    /\ call.fn = "isTestCase"
    /\ ret = None
    /\ ret' = Some(isTestCase(call.text))
    /\ UNCHANGED <<appState, messages, tasks, completedTasksCount, currentFile, isLoading,
                   showConfirmation, completionTimestamp, pending, idCounter, reqCounter,
                   now, nEvents, lastEvent, call>>

DetectNext == DetectTest

DetectSpec == DetectInit /\ [][DetectNext]_vars

\* text, in any letter case, holds '{TestCaseID', '<StepNo', or 'StepNo'
\* that ends at a word boundary
ContainsDetectionToken(text) ==
    LET low == LowerCase(text) IN
    \E i \in 1..Len(low) :
        \/ OccursAt(low, i, LitTestCaseID)
        \/ OccursAt(low, i, LitTagStepNo)
        \/ /\ OccursAt(low, i, LitStepNo)
           /\ i + Len(LitStepNo) > Len(low) \/ ~IsWordChar(low[i + Len(LitStepNo)])

(* C30: the test-case detection is true for each of the texts              *)
(* '{TestCaseID: "TC1"}', 'StepNo: 1' and '<StepNo>1</StepNo>' in any      *)
(* letter case, and false for every text that holds none of the tokens     *)
(* '{TestCaseID', 'StepNo' ending at a word boundary, and '<StepNo'.       *)
C30_DetectionPredicate ==
    ret # None =>
        /\ LowerCase(call.text) \in {LowerCase(t) : t \in DetectExamples} => ret[1] = TRUE
        /\ ~ContainsDetectionToken(call.text) => ret[1] = FALSE

\* 'STEPNOX' was tested: StepNo runs on into a word character
C30_Witness ==
    /\ call.fn = "isTestCase"
    /\ call.text = <<"S","T","E","P","N","O","X">>
    /\ ret = Some(FALSE)

----------------------------------------------------------------------------
(* Mode, task collection and completed-count *)

(* C31: in every reachable state, if the mode is CHATTING then the task    *)
(* collection is empty.                                                    *)
C31_ChattingMeansNoTasks == appState = CHATTING => tasks = <<>>

\* the chat mode was reached again by start new task
C31_Witness ==
    /\ lastEvent.op = "start_new_task"
    /\ lastEvent.from = TASKS_COMPLETED
    /\ appState = CHATTING
    /\ tasks = <<>>

(* C32: in every reachable state, if the mode is TASK_MODE then the task   *)
(* collection is non-empty and holds at least one task that is not         *)
(* completed.                                                              *)
C32_TaskModeMeansOpenTask ==
    appState = TASK_MODE => (tasks # <<>> /\ \E i \in 1..Len(tasks) : ~tasks[i].completed)

\* a second confirmation put the page back in TASK_MODE after a completion
C32_Witness ==
    /\ lastEvent.op = "confirm"
    /\ lastEvent.from = TASKS_COMPLETED
    /\ appState = TASK_MODE
    /\ Len(tasks) = 1 /\ ~tasks[1].completed

(* C33: the task collection holds at most one task in every reachable      *)
(* state, however many confirmations are made and however they interleave  *)
(* with the completions of requests.                                       *)
C33_AtMostOneTask == Len(tasks) <= 1

\* a second confirmation was made while the first validation was in flight
C33_Witness ==
    /\ lastEvent.op = "confirm"
    /\ lastEvent.busy
    /\ Cardinality(pending) = 2
    /\ Len(tasks) = 1

\* the number of completed tasks in the collection
CompletedInCollection == Cardinality({i \in 1..Len(tasks) : tasks[i].completed})

(* C35: in every reachable state completed-count equals the number of      *)
(* tasks in the collection whose completed flag is true.                   *)
C35_CountMatchesCompletedTasks == completedTasksCount = CompletedInCollection

----------------------------------------------------------------------------
(* Failure kinds, frames of the result handler and of the cancel button *)

\* the responses with which a request fails
FailureResponses == {r \in Responses : callChatAPI(r).threw}

(* C34: when a free-text send fails, the assistant message appended and    *)
(* the resulting session state are the same whether the failure was a      *)
(* non-2xx status or a network-level failure: the state after the failure  *)
(* is the state any other failure of the same request would have left.     *)
C34_FailureKindNotObservable ==
    [][(lastEvent'.op = "chat_settled" /\ lastEvent'.threw) =>
          \A req \in pending :
              req.rid = lastEvent'.rid =>
                  \A r \in FailureResponses :
                      Cur' = handleSendMessage_settled(Cur, req, r, now')]_vars

\* a free-text send has just failed at the network level
C34_Witness ==
    /\ lastEvent.op = "chat_settled"
    /\ lastEvent.threw
    /\ lastEvent.text = NetworkErrorMessage
    /\ messages[Len(messages)].content = MsgSendError
    /\ Cardinality({callChatAPI(r).error : r \in FailureResponses}) >= 2

(* C36: the completion of a validation request, success or failure,        *)
(* modifies only the task whose id is the id of the task the request was   *)
(* issued for; every other task keeps its completed flag and its           *)
(* justification, and if no task has that id no task is changed.           *)
C36_ResultTouchesOwnTaskOnly ==
    [][lastEvent'.op = "validation_settled" =>
          /\ Len(tasks') = Len(tasks)
          /\ \A i \in 1..Len(tasks) :
                tasks[i].id # lastEvent'.taskId => tasks'[i] = tasks[i]]_vars

\* the result of a replaced task arrived and the task in the collection is untouched
C36_Witness ==
    /\ lastEvent.op = "validation_settled"
    /\ tasks # <<>>
    /\ tasks[1].id # lastEvent.taskId
    /\ ~tasks[1].completed
    /\ tasks[1].justification = None

(* C38: cancelling the confirmation form sets the visibility flag of the   *)
(* form to false and leaves mode, task collection, completed-count, active *)
(* file name, busy flag and message sequence unchanged, in every mode and  *)
(* whether or not a request is in flight.                                  *)
C38_CancelOnlyHidesForm ==
    [][lastEvent'.op = "cancel" =>
          /\ ~showConfirmation'
          /\ UNCHANGED <<appState, tasks, completedTasksCount, currentFile, isLoading,
                         messages>>]_vars

\* the form was cancelled in TASK_MODE while the validation was in flight
C38_Witness ==
    /\ lastEvent.op = "cancel"
    /\ lastEvent.from = TASK_MODE
    /\ lastEvent.busy
    /\ pending # {}
    /\ ~showConfirmation
    /\ currentFile # <<>>

----------------------------------------------------------------------------
(* C39: for every content and every maxLength the string returned by       *)
(* truncateContent(content, maxLength) is at most maxLength characters     *)
(* long.                                                                   *)
C39_ResultWithinLimit ==
    (ret # None /\ call.fn = "truncateContent") => CharLen(ret[1]) <= call.maxLength

----------------------------------------------------------------------------
(* The justification of a task as the completion panel reads it: a string  *)
(* of characters                                                           *)

\* the characters of the literals that a justification is made of
LiteralChars ==
    ("Validation failed: " :> <<"V","a","l","i","d","a","t","i","o","n"," ","f","a","i","l","e","d",":"," ">>) @@
    ("HTTP error! status: " :> <<"H","T","T","P"," ","e","r","r","o","r","!"," ","s","t","a","t","u","s",":"," ">>) @@
    ("500" :> <<"5","0","0">>) @@
    ("Failed to fetch" :> <<"F","a","i","l","e","d"," ","t","o"," ","f","e","t","c","h">>) @@
    ("Unexpected end of JSON input" :> <<"U","n","e","x","p","e","c","t","e","d"," ","e","n","d"," ","o","f"," ","J","S","O","N"," ","i","n","p","u","t">>) @@
    ("Overall Result: PASS" :> <<"O","v","e","r","a","l","l"," ","R","e","s","u","l","t",":"," ","P","A","S","S">>) @@
    ("No reply from model" :> <<"N","o"," ","r","e","p","l","y"," ","f","r","o","m"," ","m","o","d","e","l">>)

\* the characters of a text: every literal chunk spelled out
RECURSIVE Characters(_)
Characters(text) ==
    IF text = <<>> THEN <<>>
    ELSE (IF Head(text) \in DOMAIN LiteralChars THEN LiteralChars[Head(text)]
          ELSE <<Head(text)>>) \o Characters(Tail(text))

\* the overall result the panel displays for task tk
DisplayedResult(tk) ==
    overallResult(IF tk.justification = None THEN None
                  ELSE Some(Characters(tk.justification[1])))

----------------------------------------------------------------------------
\* The earlier multi-task page (ChatPage.tsx 343-681): a confirmed file comes
\* with N task descriptions, and simulateTaskProcessing completes them by
\* timers.  The clock `now` counts seconds here; a timer is a member of
\* `pending` with the second it is due at.

MaxTime == 7
MaxBatch == 2

MsgNewTaskReadyMulti ==
    <<"Ready to start a new task! You can upload a new file or continue chatting.">>

\* the numeral ${generatedTasks.length} prints
Numeral(n) == <<ToString(n)>>

\* what the earlier EpsConfirmation hands to onConfirm: a file path and the
\* non-empty trimmed lines of the task list
MultiFileNames == {<<"a">>}
MultiDescriptions == <<<<"x">>, <<"y">>, <<"z">>>>
MultiForms ==
    {[pathToPdfCsvFile |-> f, tasksToBeDone |-> SubSeq(MultiDescriptions, 1, n)] :
        f \in MultiFileNames, n \in 1..MaxBatch}

\* the justification a timer stores on its task
MultiJustification(description) ==
    <<"Task \"">> \o description \o
    <<"\" completed successfully. All requirements have been met and data has been processed according to specifications.">>

\* generatedTasks of handleFileConfirmation: one open task per description,
\* each with a fresh id
MultiGeneratedTasks(s, data) ==
    [k \in 1..Len(data.tasksToBeDone) |->
        [id |-> s.idCounter + k, description |-> data.tasksToBeDone[k],
         completed |-> FALSE, justification |-> None, completedAt |-> None]]

\* simulateTaskProcessing(taskList) called at second t: the forEach sets one
\* timer per task, due (index + 1) * 2000 ms later; the callback keeps the
\* task and taskList.length
Multi_simulateTaskProcessing(s, taskList, t) ==
    [s EXCEPT !.pending = @ \cup
                  {[rid |-> s.reqCounter + k, kind |-> "task", due |-> t + 2 * k,
                    taskId |-> taskList[k].id, description |-> taskList[k].description,
                    total |-> Len(taskList)] : k \in 1..Len(taskList)},
              !.reqCounter = @ + Len(taskList)]

\* handleFileConfirmation(data) of the multi-task page at second t
Multi_handleFileConfirmation(s, data, t) ==
    LET generatedTasks == MultiGeneratedTasks(s, data)
        s1 == [s EXCEPT !.currentFile = data.pathToPdfCsvFile,
                        !.showConfirmation = FALSE,
                        !.appState = TASK_MODE,
                        !.tasks = generatedTasks,
                        !.completedTasksCount = 0,
                        !.idCounter = @ + Len(generatedTasks)]
        s2 == addMessage(s1, "assistant",
                         <<"File \"">> \o data.pathToPdfCsvFile \o
                         <<"\" received. I've generated ">> \o
                         Numeral(Len(generatedTasks)) \o
                         <<" tasks for processing. I'll now begin working on these tasks.">>,
                         t)
    IN  Multi_simulateTaskProcessing(s2, generatedTasks, t)

\* the callback of a task timer, run at second t: the task with the timer's id
\* is marked completed, the count goes up by one, and when the new count
\* equals the length of the timer's own batch the mode change is set one
\* second ahead
Multi_taskTimer(s, tm, t) ==
    LET newCount == s.completedTasksCount + 1
        s1 == [s EXCEPT !.pending = @ \ {tm},
                        !.tasks = [i \in 1..Len(@) |->
                                      IF @[i].id = tm.taskId
                                      THEN [@[i] EXCEPT !.completed = TRUE,
                                                        !.justification = Some(MultiJustification(tm.description)),
                                                        !.completedAt = Some(t)]
                                      ELSE @[i]],
                        !.completedTasksCount = newCount]
    IN  IF newCount = tm.total
        THEN [s1 EXCEPT !.pending = @ \cup {[rid |-> s.reqCounter + 1, kind |-> "mode",
                                             due |-> t + 1, taskId |-> 0,
                                             description |-> <<>>, total |-> 0]},
                        !.reqCounter = @ + 1]
        ELSE s1

\* the callback of the inner timer, run at second t
Multi_modeTimer(s, tm, t) ==
    [s EXCEPT !.pending = @ \ {tm},
              !.appState = TASKS_COMPLETED,
              !.completionTimestamp = t]

\* handleStartNewTask of the multi-task page at second t
Multi_handleStartNewTask(s, t) ==
    addMessage([s EXCEPT !.appState = CHATTING,
                         !.tasks = <<>>,
                         !.completedTasksCount = 0,
                         !.currentFile = <<>>,
                         !.completionTimestamp = t],
               "assistant", MsgNewTaskReadyMulti, t)

\* timers that are due, and the one the event loop runs next: the earliest
\* due, and among equals the one set first
DueTimers == {tm \in pending : tm.due <= now}
NextTimer(tm) ==
    /\ tm \in DueTimers
    /\ \A other \in DueTimers :
           \/ tm.due < other.due
           \/ (tm.due = other.due /\ tm.rid <= other.rid)

MultiUnchanged == UNCHANGED <<isLoading, call, ret>>

\* the confirmation form is submitted (it is rendered while showConfirmation)
MultiConfirm(data) ==
    /\ nEvents < MaxEvents
    /\ showConfirmation
    /\ Apply(Multi_handleFileConfirmation(Cur, data, now))
    /\ nEvents' = nEvents + 1
    /\ now' = now
    /\ lastEvent' = Event("confirm", Cur, 0, 0, FALSE, data.pathToPdfCsvFile, NoForm)
    /\ MultiUnchanged

\* the sidebar's New Task entry is clicked
MultiNewTask ==
    /\ nEvents < MaxEvents
    /\ Apply(handleSidebarNavigation(Cur, "new-task", now))
    /\ nEvents' = nEvents + 1
    /\ now' = now
    /\ lastEvent' = Event("new-task", Cur, 0, 0, FALSE, <<>>, NoForm)
    /\ MultiUnchanged

\* Start New Task on the completion panel, rendered in TASKS_COMPLETED only
MultiStartNewTask ==
    /\ nEvents < MaxEvents
    /\ appState = TASKS_COMPLETED
    /\ Apply(Multi_handleStartNewTask(Cur, now))
    /\ nEvents' = nEvents + 1
    /\ now' = now
    /\ lastEvent' = Event("start_new_task", Cur, 0, 0, FALSE, <<>>, NoForm)
    /\ MultiUnchanged

\* a task timer that is due runs
MultiTaskTimer ==
    \E tm \in pending :
        /\ tm.kind = "task"
        /\ NextTimer(tm)
        /\ Apply(Multi_taskTimer(Cur, tm, now))
        /\ lastEvent' = Event("task_timer", Cur, tm.rid, tm.taskId, FALSE, <<>>, NoForm)
        /\ UNCHANGED <<now, nEvents>>
        /\ MultiUnchanged

\* the inner timer that is due runs
MultiModeTimer ==
    \E tm \in pending :
        /\ tm.kind = "mode"
        /\ NextTimer(tm)
        /\ Apply(Multi_modeTimer(Cur, tm, now))
        /\ lastEvent' = Event("mode_timer", Cur, tm.rid, 0, FALSE, <<>>, NoForm)
        /\ UNCHANGED <<now, nEvents>>
        /\ MultiUnchanged

\* a second passes; timers that are due run first
MultiTick ==
    /\ now < MaxTime
    /\ DueTimers = {}
    /\ now' = now + 1
    /\ UNCHANGED <<appState, messages, tasks, completedTasksCount, currentFile,
                   showConfirmation, completionTimestamp, pending, idCounter,
                   reqCounter, nEvents, lastEvent>>
    /\ MultiUnchanged

MultiNext ==
    \/ \E data \in MultiForms : MultiConfirm(data)
    \/ MultiNewTask
    \/ MultiStartNewTask
    \/ MultiTaskTimer
    \/ MultiModeTimer
    \/ MultiTick

MultiSpec == Init /\ [][MultiNext]_vars

\* C40: on the multi-task page, whenever the mode is TASKS_COMPLETED every
\* task in the collection is completed and the completed-count equals the
\* size of the collection, also when a second batch is confirmed or a new
\* task is started while timers of an earlier batch are pending
C40_CompletedModeMeansAllDone ==
    appState = TASKS_COMPLETED =>
        (AllTasksCompleted /\ completedTasksCount = Len(tasks))
====
